---------------------------- MODULE Spec2Model ----------------------------
(***************************************************************************)
(* Question-analysis gateway (Express) and its orchestration service.      *)
(*                                                                         *)
(* Texts are TLA+ strings; the regular expressions and string methods of   *)
(* the source are evaluated character by character on them.  The em dash   *)
(* of the source's flag messages is written "-" (strings are ASCII here).  *)
(* A JavaScript value that may be null/undefined is a set with at most one *)
(* element: {} is null/undefined, {v} is the value v.                      *)
(***************************************************************************)
EXTENDS Integers, Sequences, FiniteSets, TLC

(***************************************************************************)
(* State                                                                   *)
(***************************************************************************)
VARIABLES
  env,            \* config/env.ts and the credentials the clients look for
  now,            \* Date.now()
  keyStore,       \* firestore.client: Map apiKey -> ApiKeyRecord
  buckets,        \* rateLimit: Map apiKey -> RateBucket
  analysisLogs,   \* firestore.client: AnalysisLog[]
  users,          \* the User collection (mongoose)
  handedOut,      \* the apiKeys the registration endpoints have answered with
  calls,          \* how often each adapter has been invoked
  reqs            \* the requests so far: in flight (pc # "done") and answered

vars == <<env, now, keyStore, buckets, analysisLogs, users, handedOut, calls, reqs>>

(***************************************************************************)
(* Characters and string methods                                           *)
(***************************************************************************)
UpperAlpha == "ABCDEFGHIJKLMNOPQRSTUVWXYZ"
LowerAlpha == "abcdefghijklmnopqrstuvwxyz"
Digits == "0123456789"

Char(s, i) == SubSeq(s, i, i)
Rest(s) == SubSeq(s, 2, Len(s))
InStr(c, s) == \E i \in 1..Len(s) : Char(s, i) = c

\* \w of a JavaScript regular expression
IsWordChar(c) == InStr(c, UpperAlpha) \/ InStr(c, LowerAlpha) \/ InStr(c, Digits) \/ c = "_"
\* \s of a JavaScript regular expression, and what String.prototype.trim strips
IsSpaceChar(c) == c \in {" ", "\t", "\n", "\r"}

LowerChar(c) ==
  IF InStr(c, UpperAlpha)
    THEN Char(LowerAlpha, CHOOSE i \in 1..Len(UpperAlpha) : Char(UpperAlpha, i) = c)
    ELSE c

\* (by halves, so that the depth of the recursion stays logarithmic)
RECURSIVE toLowerCase(_)
toLowerCase(s) ==
  IF Len(s) <= 1 THEN LowerChar(s)
  ELSE LET half == Len(s) \div 2
       IN toLowerCase(SubSeq(s, 1, half)) \o toLowerCase(SubSeq(s, half + 1, Len(s)))

RECURSIVE trimStart(_)
trimStart(s) == IF s # "" /\ IsSpaceChar(Char(s, 1)) THEN trimStart(Rest(s)) ELSE s

RECURSIVE trimEnd(_)
trimEnd(s) ==
  IF s # "" /\ IsSpaceChar(Char(s, Len(s))) THEN trimEnd(SubSeq(s, 1, Len(s) - 1)) ELSE s

trim(s) == trimEnd(trimStart(s))

\* s.replace(/\s+/g, ' ')
\* what the characters lo..hi of s become: the first character of a run of
\* whitespace a space, the others of the run nothing
RECURSIVE collapseRange(_, _, _)
collapseRange(s, lo, hi) ==
  IF lo > hi THEN ""
  ELSE IF lo = hi
    THEN IF ~IsSpaceChar(Char(s, lo)) THEN Char(s, lo)
         ELSE IF lo > 1 /\ IsSpaceChar(Char(s, lo - 1)) THEN "" ELSE " "
  ELSE LET mid == (lo + hi) \div 2
       IN collapseRange(s, lo, mid) \o collapseRange(s, mid + 1, hi)

collapseWhitespace(s) == collapseRange(s, 1, Len(s))

StartsAt(s, i, p) == i + Len(p) - 1 <= Len(s) /\ SubSeq(s, i, i + Len(p) - 1) = p
\* s.includes(p)
includes(s, p) == \E i \in 1..(Len(s) + 1) : StartsAt(s, i, p)
\* /p1|p2|.../i.test(s)
testAny(s, ps) == LET l == toLowerCase(s) IN \E p \in ps : includes(l, p)
\* s.match(/^(p1|p2|...)/i)
matchPrefix(s, ps) == LET l == toLowerCase(s) IN \E p \in ps : StartsAt(l, 1, p)
\* s.split(' ').length
splitSpaceLength(s) == 1 + Cardinality({i \in 1..Len(s) : Char(s, i) = " "})

\* the maximal runs of \w characters of s, in order: what /\b(...)\b/g can match
\* the run that starts at position i
wordRunAt(s, i) ==
  LET last == CHOOSE j \in i..Len(s) :
                /\ j = Len(s) \/ ~IsWordChar(Char(s, j + 1))
                /\ \A k \in i..j : IsWordChar(Char(s, k))
  IN SubSeq(s, i, last)

\* the runs that start at the positions lo..hi
RECURSIVE wordRuns(_, _, _)
wordRuns(s, lo, hi) ==
  IF lo > hi THEN <<>>
  ELSE IF lo = hi
    THEN IF IsWordChar(Char(s, lo)) /\ (lo = 1 \/ ~IsWordChar(Char(s, lo - 1)))
           THEN <<wordRunAt(s, lo)>> ELSE <<>>
  ELSE LET mid == (lo + hi) \div 2
       IN wordRuns(s, lo, mid) \o wordRuns(s, mid + 1, hi)

\* s.match(/\b(w1|w2|...)\b/g) || []  (every alternative is made of \w characters)
matchWords(s, ws) == SelectSeq(wordRuns(s, 1, Len(s)), LAMBDA w : w \in ws)

\* [...new Set(xs)]
RECURSIVE dedupe(_, _)
dedupe(xs, seen) ==
  IF xs = <<>> THEN <<>>
  ELSE IF Head(xs) \in seen THEN dedupe(Tail(xs), seen)
  ELSE <<Head(xs)>> \o dedupe(Tail(xs), seen \cup {Head(xs)})

\* xs.slice(0, n)
slice0(xs, n) == SubSeq(xs, 1, IF Len(xs) < n THEN Len(xs) ELSE n)

Range(xs) == {xs[i] : i \in 1..Len(xs)}
Max2(a, b) == IF a >= b THEN a ELSE b
Min2(a, b) == IF a <= b THEN a ELSE b

(***************************************************************************)
(* Heuristic scorer                                                        *)
(***************************************************************************)
ComplexWords ==
  {"algorithm", "complexity", "implement", "architecture", "optimization",
   "distributed", "concurrent", "async", "paradigm", "polymorphism"}
TechnicalTerms ==
  {"database", "query", "index", "transaction", "api", "rest", "graphql",
   "microservice", "container", "kubernetes", "probability", "integral", "vector"}
QualityImperatives == {"write", "explain", "describe", "implement", "design", "create"}
FlagImperatives == QualityImperatives \cup {"build"}
SpecificityWords == {"specifically", "exactly", "how", "why", "what", "when", "where"}
VagueTerms == {"thing", "stuff", "something", "basically", "just", "simply"}
KeywordVocabulary ==
  {"algorithm", "complexity", "function", "class", "object", "data", "structure",
   "react", "node", "api", "database", "query", "sort", "search", "array", "tree",
   "graph", "stack", "queue", "hash", "linked", "list", "binary", "recursion",
   "iteration", "async", "await", "probability", "matrix", "vector", "derivative",
   "integral"}

FlagAmbiguous == "Ambiguous phrasing - add a clear ask."
FlagBroad == "Broad scope - consider splitting into multiple prompts."
FlagContext == "Needs more context for fair evaluation."
FlagDepth == "Lacks technical depth for the selected subject."
FlagVague == "Vague language - replace informal terms."
FlagPassive == "Passive voice detected - prefer active phrasing."
FlagClauses == "Multiple clauses - consider simplifying sentences."

ExplainHard == "High cognitive load detected from technical terminology and length."
ExplainMedium == "Balanced structure with moderate complexity and identifiable goals."
ExplainEasy == "Concise prompt with straightforward intent and limited complexity."
FixSplit == "Break the question into two or more focused parts targeting single concepts."
FixTighten == "Tighten the phrasing and ensure the ask maps to one assessable skill."

difficultyScore(question) ==
  LET wordCount == splitSpaceLength(question) IN
    (IF testAny(question, ComplexWords) THEN 2 ELSE 0)
  + (IF testAny(question, TechnicalTerms) THEN 1 ELSE 0)
  + (IF wordCount > 20 THEN 1 ELSE 0)
  - (IF wordCount < 8 THEN 1 ELSE 0)

\* faulty variant, rejected by C19: Easy up to a score of 1
difficultyOfEasyUpTo1(score) ==
  IF score <= 1 THEN "Easy" ELSE IF score <= 2 THEN "Medium" ELSE "Hard"

difficultyOf(score) == IF score <= 0 THEN "Easy" ELSE IF score <= 2 THEN "Medium" ELSE "Hard"

\* faulty variant, rejected by C18: no penalty for fewer than 5 words
rawQualityNoShortPenalty(question) ==
  LET wordCount == splitSpaceLength(question)
      hasGoodStructure ==
        includes(question, ",") \/ includes(question, ";") \/ includes(question, " and ")
  IN 70
   + (IF includes(question, "?") \/ matchPrefix(question, QualityImperatives) THEN 15 ELSE 0)
   + (IF wordCount >= 8 /\ wordCount <= 30 THEN 10
      ELSE IF wordCount > 40 THEN -15 ELSE 0)
   + (IF matchWords(toLowerCase(question), SpecificityWords) # <<>> THEN 5 ELSE 0)
   + (IF hasGoodStructure /\ wordCount > 15 THEN 5 ELSE 0)

rawQuality(question) ==
  LET wordCount == splitSpaceLength(question)
      hasGoodStructure ==
        includes(question, ",") \/ includes(question, ";") \/ includes(question, " and ")
  IN 70
   + (IF includes(question, "?") \/ matchPrefix(question, QualityImperatives) THEN 15 ELSE 0)
   + (IF wordCount >= 8 /\ wordCount <= 30 THEN 10
      ELSE IF wordCount < 5 THEN -20
      ELSE IF wordCount > 40 THEN -15 ELSE 0)
   + (IF matchWords(toLowerCase(question), SpecificityWords) # <<>> THEN 5 ELSE 0)
   + (IF hasGoodStructure /\ wordCount > 15 THEN 5 ELSE 0)

\* faulty variant, rejected by C13: no ceiling
clampQualityFloorOnly(q) == Max2(30, q)

clampQuality(q) == Min2(100, Max2(30, q))

\* faulty variant, rejected by C15: the context flag below 5 words
heuristicFlagsContextBelow5(question) ==
  LET wordCount == splitSpaceLength(question) IN
    (IF ~includes(question, "?") /\ ~matchPrefix(question, FlagImperatives)
       THEN <<FlagAmbiguous>> ELSE <<>>)
 \o (IF wordCount > 35 THEN <<FlagBroad>> ELSE <<>>)
 \o (IF wordCount < 5 THEN <<FlagContext>> ELSE <<>>)
 \o (IF ~testAny(question, ComplexWords) /\ ~testAny(question, TechnicalTerms)
        /\ wordCount > 15
       THEN <<FlagDepth>> ELSE <<>>)
 \o (IF testAny(question, VagueTerms) THEN <<FlagVague>> ELSE <<>>)

\* faulty variant, rejected by C16: the broad-scope flag above 40 words
heuristicFlagsBroadAbove40(question) ==
  LET wordCount == splitSpaceLength(question) IN
    (IF ~includes(question, "?") /\ ~matchPrefix(question, FlagImperatives)
       THEN <<FlagAmbiguous>> ELSE <<>>)
 \o (IF wordCount > 40 THEN <<FlagBroad>> ELSE <<>>)
 \o (IF wordCount < 6 THEN <<FlagContext>> ELSE <<>>)
 \o (IF ~testAny(question, ComplexWords) /\ ~testAny(question, TechnicalTerms)
        /\ wordCount > 15
       THEN <<FlagDepth>> ELSE <<>>)
 \o (IF testAny(question, VagueTerms) THEN <<FlagVague>> ELSE <<>>)

heuristicFlags(question) ==
  LET wordCount == splitSpaceLength(question) IN
    (IF ~includes(question, "?") /\ ~matchPrefix(question, FlagImperatives)
       THEN <<FlagAmbiguous>> ELSE <<>>)
 \o (IF wordCount > 35 THEN <<FlagBroad>> ELSE <<>>)
 \o (IF wordCount < 6 THEN <<FlagContext>> ELSE <<>>)
 \o (IF ~testAny(question, ComplexWords) /\ ~testAny(question, TechnicalTerms)
        /\ wordCount > 15
       THEN <<FlagDepth>> ELSE <<>>)
 \o (IF testAny(question, VagueTerms) THEN <<FlagVague>> ELSE <<>>)

heuristicKeywords(question) ==
  slice0(dedupe(matchWords(toLowerCase(question), KeywordVocabulary), {}), 8)

\* faulty variant, rejected by C17: the specificity regex kept at module level
\* with the g flag, so that every second call misses its match
heuristicAnalyzeStickyRegex(payload) ==
  LET question == payload.question
      difficulty == difficultyOf(difficultyScore(question))
      flags == heuristicFlags(question)
  IN [question |-> question,
      subject |-> payload.subject,
      questionType |-> payload.type,
      difficulty |-> difficulty,
      qualityScore |-> clampQuality(rawQuality(question)
                                    - (IF Len(reqs) % 2 = 1 THEN 5 ELSE 0)),
      flags |-> flags,
      explanation |-> IF difficulty = "Hard" THEN ExplainHard
                      ELSE IF difficulty = "Medium" THEN ExplainMedium ELSE ExplainEasy,
      suggestedFix |-> IF FlagBroad \in Range(flags) THEN FixSplit ELSE FixTighten,
      keywords |-> heuristicKeywords(question),
      undef |-> {}]

\* undef: the names of the properties the JavaScript object does not have
heuristicAnalyze(payload) ==
  LET question == payload.question
      difficulty == difficultyOf(difficultyScore(question))
      flags == heuristicFlags(question)
  IN [question |-> question,
      subject |-> payload.subject,
      questionType |-> payload.type,
      difficulty |-> difficulty,
      qualityScore |-> clampQuality(rawQuality(question)),
      flags |-> flags,
      explanation |-> IF difficulty = "Hard" THEN ExplainHard
                      ELSE IF difficulty = "Medium" THEN ExplainMedium ELSE ExplainEasy,
      suggestedFix |-> IF FlagBroad \in Range(flags) THEN FixSplit ELSE FixTighten,
      keywords |-> heuristicKeywords(question),
      undef |-> {}]

(***************************************************************************)
(* NL adapter (analyzeWithGcpNl): the regex fallback                       *)
(***************************************************************************)
NlKeywordVocabulary == {"algorithm", "probability", "database", "vector", "analysis"}

\* text.split(/[.!?]/).filter(Boolean).length
RECURSIVE sentencePieces(_, _)
sentencePieces(s, inPiece) ==
  IF s = "" THEN 0
  ELSE IF Char(s, 1) \in {".", "!", "?"} THEN sentencePieces(Rest(s), FALSE)
  ELSE (IF inPiece THEN 0 ELSE 1) + sentencePieces(Rest(s), TRUE)

\* /was\s+\w+ed/i.test(text)
passiveRegex(text) ==
  LET l == toLowerCase(text)
      n == Len(l)
  IN \E i \in 1..n :
       /\ StartsAt(l, i, "was")
       /\ \E j \in (i + 4)..n :
            /\ \A m \in (i + 3)..(j - 1) : IsSpaceChar(Char(l, m))
            /\ \E k \in (j + 1)..n :
                 /\ StartsAt(l, k, "ed")
                 /\ \A m \in j..(k - 1) : IsWordChar(Char(l, m))

\* complexityPer50 / 50 is the source's complexityScore
nlFallback(text) ==
  [sentenceCount |-> Max2(1, sentencePieces(text, FALSE)),
   passiveVoice |-> passiveRegex(text),
   complexityPer50 |-> Min2(50, splitSpaceLength(text)),
   keywords |-> slice0(matchWords(toLowerCase(text), NlKeywordVocabulary), 5)]

(***************************************************************************)
(* Request validation                                                      *)
(***************************************************************************)
MinQuestionLength == 5
ErrRequired == "question, subject, and type are required"
ErrTooShort == "question is too short"
ErrMissingKey == "Missing API key"
ErrInvalidKey == "Invalid API key"
ErrRateLimit == "Rate limit exceeded"
ErrNotIterable == "baseResult.flags is not iterable"

\* a body property is {} when absent and {s} when it is the string s
Falsy(opt) == opt = {} \/ opt = {""}
Val(opt) == CHOOSE v \in opt : TRUE

\* faulty variant, rejected by C11: the length of the question is not checked
validateErrorNoLength(body) ==
  IF Falsy(body.question) \/ Falsy(body.subject) \/ Falsy(body.type) THEN ErrRequired
  ELSE ""

\* the Error validateAnalyze throws, "" when it returns
validateError(body) ==
  IF Falsy(body.question) \/ Falsy(body.subject) \/ Falsy(body.type) THEN ErrRequired
  ELSE IF Len(trim(Val(body.question))) < MinQuestionLength THEN ErrTooShort
  ELSE ""

validateAnalyze(body) ==
  [question |-> trim(Val(body.question)),
   subject |-> trim(Val(body.subject)),
   type |-> IF Val(body.type) = "Theory" THEN "Theory" ELSE "MCQ"]

(***************************************************************************)
(* The request bodies and payloads of the specifications, and the string   *)
(* work on them done once                                                  *)
(***************************************************************************)
Body(q, s, t) == [question |-> q, subject |-> s, type |-> t]
ValidBody == Body({"  What is recursion? "}, {"CS"}, {"Theory"})
GatewayBodies ==
  {ValidBody,
   Body({" Hi? "}, {"CS"}, {"MCQ"}),
   Body({"What is recursion?"}, {}, {"MCQ"})}
RateBodies == {ValidBody}

\* the bodies of SpecValid: questions around the minimum length, with and
\* without inner runs of whitespace; absent, empty and padded fields
ValidationBodies ==
  {Body(q, sb, t) :
     q \in {{}, {""}, {"     "}, {"Hi?"}, {" Hi? "}, {"a    b"}, {"a \t\n b?"}, {"abcde"},
            {"Why so?"}, {"  What is recursion? "}, {"x\t\t\t\ty"}, {"Why?  "}},
     sb \in {{}, {""}, {"CS"}, {" CS "}},
     t \in {{}, {"Theory"}, {"MCQ"}, {"Essay"}}}

Payload(q, s, t) == [question |-> q, subject |-> s, type |-> t]
DirectPayloads ==
  {Payload("What is recursion?", "CS", "Theory"),
   Payload("The  list was sorted\tby an algorithm. Why? How! Where?", "CS", "MCQ"),
   Payload("explain the database index", "DB", "Theory")}


cleanPayload(payload) ==
  [payload EXCEPT !.question = trim(collapseWhitespace(payload.question))]

KnownBodies == GatewayBodies \cup RateBodies
KnownPayloads ==
  DirectPayloads \cup {validateAnalyze(b) : b \in {c \in KnownBodies : validateError(c) = ""}}
KnownCleaned == {cleanPayload(p) : p \in KnownPayloads}

ValidateErrorTable == [b \in KnownBodies |-> validateError(b)]
CleanTable == [p \in KnownPayloads |-> cleanPayload(p)]
HeuristicTable == [c \in KnownCleaned |-> heuristicAnalyze(c)]
FallbackTable == [c \in KnownCleaned |-> nlFallback(c.question)]

validateErrorOf(body) ==
  IF body \in KnownBodies THEN ValidateErrorTable[body] ELSE validateError(body)
cleaned(payload) ==
  IF payload \in KnownPayloads THEN CleanTable[payload] ELSE cleanPayload(payload)
heuristicOf(c) ==
  IF c \in KnownCleaned THEN HeuristicTable[c] ELSE heuristicAnalyze(c)
fallbackOf(c) ==
  IF c \in KnownCleaned THEN FallbackTable[c] ELSE nlFallback(c.question)

WindowMs == 60000

EmptyPrediction == [difficulty |-> {}, qualityScore |-> {}, explanation |-> {}]
NoResult == {}

(***************************************************************************)
(* Middleware                                                              *)
(***************************************************************************)
findApiKey(apiKey) == IF apiKey \in DOMAIN keyStore THEN {keyStore[apiKey]} ELSE {}

\* faulty variant, rejected by C7: the registry is not consulted
apiKeyAuthPresenceOnly(key) == IF Falsy(key) THEN ErrMissingKey ELSE ""

\* the 401 message apiKeyAuth answers with, "" when it calls next()
apiKeyAuth(key) ==
  IF Falsy(key) THEN ErrMissingKey
  ELSE IF findApiKey(Val(key)) = {} THEN ErrInvalidKey
  ELSE ""

\* faulty variant, rejected by C10: the reset forgets to move windowStart
rateBucketKeepsStart(key) ==
  LET bucket == IF key \in DOMAIN buckets THEN buckets[key]
                ELSE [count |-> 0, windowStart |-> now]
      elapsed == now - bucket.windowStart
  IN IF elapsed > WindowMs THEN [bucket EXCEPT !.count = 0] ELSE bucket

\* the bucket rateLimit works on, after its window reset
rateBucket(key) ==
  LET bucket == IF key \in DOMAIN buckets THEN buckets[key]
                ELSE [count |-> 0, windowStart |-> now]
      elapsed == now - bucket.windowStart
  IN IF elapsed > WindowMs THEN [count |-> 0, windowStart |-> now] ELSE bucket

\* faulty variant, rejected by C9: off by one (> for >=)
overLimitStrict(bucket) == bucket.count > env.rateLimitPerMinute

overLimit(bucket) == bucket.count >= env.rateLimitPerMinute

\* faulty variant, rejected by C28: a rejection restarts the key's window
bucketsAfterRejectionRestarts(key) ==
  LET b == rateBucket(key) IN
  IF overLimit(b)
    THEN (IF key \in DOMAIN buckets
            THEN [buckets EXCEPT ![key] = [b EXCEPT !.windowStart = now]]
          ELSE buckets)
    ELSE [k \in DOMAIN buckets \cup {key} |->
            IF k = key THEN [b EXCEPT !.count = b.count + 1] ELSE buckets[k]]

\* faulty variant, rejected by C27: an admitted request is counted on every key
bucketsAfterCountsEveryKey(key) ==
  LET b == rateBucket(key) IN
  IF overLimit(b)
    THEN (IF key \in DOMAIN buckets THEN [buckets EXCEPT ![key] = b] ELSE buckets)
    ELSE [k \in DOMAIN buckets \cup {key} |->
            IF k = key THEN [b EXCEPT !.count = b.count + 1]
            ELSE [buckets[k] EXCEPT !.count = @ + 1]]

\* buckets after rateLimit: an admitted request is counted and stored; a rejected
\* one leaves only the reset it made on a bucket object already in the map
bucketsAfter(key) ==
  LET b == rateBucket(key) IN
  IF overLimit(b)
    THEN (IF key \in DOMAIN buckets THEN [buckets EXCEPT ![key] = b] ELSE buckets)
    ELSE [k \in DOMAIN buckets \cup {key} |->
            IF k = key THEN [b EXCEPT !.count = b.count + 1] ELSE buckets[k]]

(***************************************************************************)
(* Orchestrator: the pure steps of analyzeQuestion                         *)
(***************************************************************************)
\* faulty variant, rejected by C1: the heuristic is the base even when the
\* inference answered
baseResultHeuristicOnly(pythonResult, cleanedPayload) == heuristicOf(cleanedPayload)

\* pythonResult || heuristicAnalyze(cleaned)
baseResult(pythonResult, cleanedPayload) ==
  IF pythonResult # {} THEN Val(pythonResult) ELSE heuristicOf(cleanedPayload)

\* [...baseResult.flags] throws a TypeError when the object has no flags
nlMergeThrows(base) == "flags" \in base.undef

\* faulty variant, rejected by C4: the clauses flag already at three sentences
nlFlagsFromThree(nlSignals) ==
     (IF nlSignals.passiveVoice THEN <<FlagPassive>> ELSE <<>>)
  \o (IF nlSignals.sentenceCount >= 3 THEN <<FlagClauses>> ELSE <<>>)

nlFlags(nlSignals) ==
     (IF nlSignals.passiveVoice THEN <<FlagPassive>> ELSE <<>>)
  \o (IF nlSignals.sentenceCount > 3 THEN <<FlagClauses>> ELSE <<>>)

\* faulty variant, rejected by C25: the NL keywords are put before the base's
nlMergeNlKeywordsFirst(base, nlSignals) ==
  [base EXCEPT
     !.flags = base.flags \o nlFlags(nlSignals),
     !.keywords = dedupe(nlSignals.keywords
                         \o (IF "keywords" \in base.undef THEN <<>> ELSE base.keywords), {}),
     !.undef = base.undef \ {"flags", "keywords"}]

nlMerge(base, nlSignals) ==
  [base EXCEPT
     !.flags = base.flags \o nlFlags(nlSignals),
     !.keywords = dedupe((IF "keywords" \in base.undef THEN <<>> ELSE base.keywords)
                         \o nlSignals.keywords, {}),
     !.undef = base.undef \ {"flags", "keywords"}]

\* if (vertexResult.f) baseResult.f = vertexResult.f
truthyString(opt) == opt # {} /\ opt # {""}
truthyNumber(opt) == opt # {} /\ opt # {0}

\* faulty variant, rejected by C2: the override only fills what the base lacks
\* (f = base.f || vertexResult.f)
applyOverrideFillOnly(base, vertexResult) ==
  [base EXCEPT
     !.difficulty = IF base.difficulty # "" THEN base.difficulty
                    ELSE IF truthyString(vertexResult.difficulty)
                      THEN Val(vertexResult.difficulty) ELSE base.difficulty,
     !.qualityScore = IF base.qualityScore # 0 THEN base.qualityScore
                      ELSE IF truthyNumber(vertexResult.qualityScore)
                        THEN Val(vertexResult.qualityScore) ELSE base.qualityScore,
     !.explanation = IF base.explanation # "" THEN base.explanation
                     ELSE IF truthyString(vertexResult.explanation)
                       THEN Val(vertexResult.explanation) ELSE base.explanation]

applyOverride(base, vertexResult) ==
  [base EXCEPT
     !.difficulty = IF truthyString(vertexResult.difficulty)
                      THEN Val(vertexResult.difficulty) ELSE base.difficulty,
     !.qualityScore = IF truthyNumber(vertexResult.qualityScore)
                        THEN Val(vertexResult.qualityScore) ELSE base.qualityScore,
     !.explanation = IF truthyString(vertexResult.explanation)
                       THEN Val(vertexResult.explanation) ELSE base.explanation]

\* getClient() / getPredictionClient() give a client; the endpoints are set
nlConfigured == env.credentials
pythonConfigured == env.pythonEndpoint
vertexConfigured == env.credentials /\ env.vertexEndpoint

\* logs after logAnalysis(log)
logAnalysis(logs, log) == IF env.useInMemoryStore THEN Append(logs, log) ELSE logs

(***************************************************************************)
(* Requests                                                                *)
(*                                                                         *)
(* A handler runs to its next await on real I/O without interleaving: an   *)
(* adapter that is not configured resolves in the same turn of the event   *)
(* loop, a configured one resolves in a later step.  The steps below work  *)
(* on a bundle [q, calls, logs]: the request and the shared state its      *)
(* handler writes.                                                         *)
(***************************************************************************)
\* via: "http" (POST /analyze-question) or "direct" (a call of analyzeQuestion)
\* pc: "fanout" (Promise.all pending), "vertex" (callVertexModel pending), "done"
\* status: the HTTP status answered, 0 while none is
Answered(via, key, body, status, error) ==
  [via |-> via, key |-> key, body |-> body, pc |-> "done", status |-> status,
   error |-> error, outcome |-> IF status = 500 THEN "threw" ELSE "rejected",
   cleaned |-> {}, start |-> now,
   nlDone |-> FALSE, nlSignals |-> {}, pyDone |-> FALSE, pythonResult |-> {},
   merged |-> {}, vertexResult |-> {}, result |-> {}]

Started(via, key, body, payload) ==
  [via |-> via, key |-> key, body |-> body, pc |-> "fanout", status |-> 0,
   error |-> "", outcome |-> "pending",
   cleaned |-> {cleaned(payload)}, start |-> now,
   nlDone |-> FALSE, nlSignals |-> {}, pyDone |-> FALSE, pythonResult |-> {},
   merged |-> {}, vertexResult |-> {}, result |-> {}]

\* faulty variant, rejected by C20: a sink that is switched off throws, and the
\* call of logAnalysis lets the exception through
finishSinkThrows(S, vertexResult) ==
  LET q == S.q
      final == applyOverride(Val(q.merged), vertexResult)
  IN IF ~env.useInMemoryStore
       THEN [S EXCEPT !.q = [q EXCEPT !.pc = "done", !.outcome = "threw",
                                      !.vertexResult = {vertexResult},
                                      !.status = IF q.via = "http" THEN 500 ELSE 0]]
     ELSE [S EXCEPT
        !.q = [q EXCEPT !.pc = "done", !.outcome = "returned",
                        !.vertexResult = {vertexResult}, !.result = {final},
                        !.status = IF q.via = "http" THEN 200 ELSE 0],
        !.logs = logAnalysis(S.logs, [apiKey |-> Val(q.key),
                                      subject |-> Val(q.cleaned).subject,
                                      type |-> Val(q.cleaned).type,
                                      latencyMs |-> now - q.start,
                                      flags |-> final.flags,
                                      createdAt |-> now])]

\* the rest of analyzeQuestion once callVertexModel has resolved: override,
\* logAnalysis, return; the route handler answers 200
finish(S, vertexResult) ==
  LET q == S.q
      final == applyOverride(Val(q.merged), vertexResult)
  IN [S EXCEPT
        !.q = [q EXCEPT !.pc = "done", !.outcome = "returned",
                        !.vertexResult = {vertexResult}, !.result = {final},
                        !.status = IF q.via = "http" THEN 200 ELSE 0],
        !.logs = logAnalysis(S.logs, [apiKey |-> Val(q.key),
                                      subject |-> Val(q.cleaned).subject,
                                      type |-> Val(q.cleaned).type,
                                      latencyMs |-> now - q.start,
                                      flags |-> final.flags,
                                      createdAt |-> now])]

\* faulty variant, rejected by C30: the TypeError of the NL merge is swallowed
\* and the handler neither answers nor calls next(error)
fanInHangsOnThrow(S) ==
  LET q == S.q
      base == baseResult(q.pythonResult, Val(q.cleaned))
      called == [S EXCEPT !.q.pc = "vertex",
                          !.q.merged = IF q.nlSignals # {}
                                         THEN {nlMerge(base, Val(q.nlSignals))}
                                         ELSE {base},
                          !.calls.vertex = @ + 1]
  IN IF q.nlSignals # {} /\ nlMergeThrows(base) THEN S
     ELSE IF vertexConfigured THEN called
     ELSE finish(called, EmptyPrediction)

\* analyzeQuestion after Promise.all: base result, NL merge (a TypeError there
\* reaches errorHandler through next(error)), then callVertexModel is called
fanIn(S) ==
  LET q == S.q
      base == baseResult(q.pythonResult, Val(q.cleaned))
      called == [S EXCEPT !.q.pc = "vertex",
                          !.q.merged = IF q.nlSignals # {}
                                         THEN {nlMerge(base, Val(q.nlSignals))}
                                         ELSE {base},
                          !.calls.vertex = @ + 1]
  IN IF q.nlSignals # {} /\ nlMergeThrows(base)
       THEN [S EXCEPT !.q.pc = "done", !.q.outcome = "threw",
                      !.q.error = ErrNotIterable,
                      !.q.status = IF q.via = "http" THEN 500 ELSE 0]
     ELSE IF vertexConfigured THEN called
     ELSE finish(called, EmptyPrediction)

\* faulty variant, rejected by C21: the join waits for the NL adapter only
settleAfterNl(S) == IF S.q.pc = "fanout" /\ S.q.nlDone THEN fanIn(S) ELSE S

settle(S) == IF S.q.pc = "fanout" /\ S.q.nlDone /\ S.q.pyDone THEN fanIn(S) ELSE S

nlResolved(S, nlSignals) ==
  settle([S EXCEPT !.q.nlDone = TRUE, !.q.nlSignals = {nlSignals}])

pyResolved(S, pythonResult) ==
  settle([S EXCEPT !.q.pyDone = TRUE, !.q.pythonResult = pythonResult])

\* analyzeQuestion from its call: clean, call both adapters, and go on as far as
\* the adapters that are not configured allow
startAnalyze(via, key, body, payload) ==
  LET q == Started(via, key, body, payload)
      S0 == [q |-> q, calls |-> [calls EXCEPT !.nl = @ + 1, !.python = @ + 1],
             logs |-> analysisLogs]
      S1 == IF nlConfigured THEN S0
            ELSE nlResolved(S0, fallbackOf(Val(q.cleaned)))
  IN IF pythonConfigured THEN S1 ELSE pyResolved(S1, {})

Commit(r, S) ==
  /\ reqs' = [i \in 1..Max2(r, Len(reqs)) |-> IF i = r THEN S.q ELSE reqs[i]]
  /\ calls' = S.calls
  /\ analysisLogs' = S.logs

\* POST /analyze-question: apiKeyAuth, rateLimit, then the route handler
\* faulty variant, rejected by C29: the body is validated before rateLimit runs
HttpAnalyzeValidatesFirst(key, body) ==
  LET authError == apiKeyAuth(key)
      valError == validateErrorOf(body)
      r == Len(reqs) + 1
      Answer(status, error) ==
        /\ reqs' = Append(reqs, Answered("http", key, body, status, error))
        /\ UNCHANGED <<calls, analysisLogs>>
  IN /\ UNCHANGED <<env, now, keyStore, users, handedOut>>
     /\ IF authError # ""
          THEN Answer(401, authError) /\ UNCHANGED buckets
          ELSE IF valError # "" THEN Answer(500, valError) /\ UNCHANGED buckets
          ELSE /\ buckets' = bucketsAfter(Val(key))
               /\ IF overLimit(rateBucket(Val(key))) THEN Answer(429, ErrRateLimit)
                  ELSE Commit(r, startAnalyze("http", key, body, validateAnalyze(body)))

HttpAnalyze(key, body) ==
  LET authError == apiKeyAuth(key)
      valError == validateErrorOf(body)
      r == Len(reqs) + 1
      Answer(status, error) ==
        /\ reqs' = Append(reqs, Answered("http", key, body, status, error))
        /\ UNCHANGED <<calls, analysisLogs>>
  IN /\ UNCHANGED <<env, now, keyStore, users, handedOut>>
     /\ IF authError # ""
          THEN Answer(401, authError) /\ UNCHANGED buckets
          ELSE /\ buckets' = bucketsAfter(Val(key))
               /\ IF overLimit(rateBucket(Val(key))) THEN Answer(429, ErrRateLimit)
                  \* validateAnalyze throws; next(error) reaches errorHandler
                  ELSE IF valError # "" THEN Answer(500, valError)
                  ELSE Commit(r, startAnalyze("http", key, body, validateAnalyze(body)))

\* analyzeQuestion(payload, apiKey) called on its own
CallAnalyze(payload, apiKey) ==
  /\ Commit(Len(reqs) + 1,
            startAnalyze("direct", {apiKey},
                         [question |-> {payload.question}, subject |-> {payload.subject},
                          type |-> {payload.type}], payload))
  /\ UNCHANGED <<env, now, keyStore, buckets, users, handedOut>>

Bundle(r) == [q |-> reqs[r], calls |-> calls, logs |-> analysisLogs]

\* analyzeWithGcpNl resolves with the upstream's signals, or with the regex
\* fallback when the upstream call fails (upstream = {})
\* faulty variant, rejected by C26: the catch block's fallback counts no sentence
NlReturnFailureNoSentences(r, upstream) ==
  /\ nlConfigured
  /\ reqs[r].pc = "fanout" /\ ~reqs[r].nlDone
  /\ Commit(r, nlResolved(Bundle(r),
                          IF upstream # {} THEN Val(upstream)
                          ELSE [fallbackOf(Val(reqs[r].cleaned)) EXCEPT !.sentenceCount = 0]))
  /\ UNCHANGED <<env, now, keyStore, buckets, users, handedOut>>

NlReturn(r, upstream) ==
  /\ nlConfigured
  /\ reqs[r].pc = "fanout" /\ ~reqs[r].nlDone
  /\ Commit(r, nlResolved(Bundle(r),
                          IF upstream # {} THEN Val(upstream)
                          ELSE fallbackOf(Val(reqs[r].cleaned))))
  /\ UNCHANGED <<env, now, keyStore, buckets, users, handedOut>>

\* callPythonInference resolves with the parsed reply (JSON null is {}), or with
\* null when the call fails (failed)
PyReturn(r, reply, failed) ==
  /\ pythonConfigured
  /\ reqs[r].pc = "fanout" /\ ~reqs[r].pyDone
  /\ Commit(r, pyResolved(Bundle(r), IF failed THEN {} ELSE reply))
  /\ UNCHANGED <<env, now, keyStore, buckets, users, handedOut>>

\* callVertexModel resolves with the prediction, or with the empty object when
\* the endpoint answers no prediction or the call fails
VertexReturn(r, prediction) ==
  /\ vertexConfigured
  /\ reqs[r].pc = "vertex"
  /\ Commit(r, finish(Bundle(r), prediction))
  /\ UNCHANGED <<env, now, keyStore, buckets, users, handedOut>>

\* analyzeQuestion as far as the heuristic scorer: clean the payload and call
\* heuristicAnalyze(cleaned); the request records the scorer's own result
Scored(payload) ==
  [Started("direct", {}, Body({payload.question}, {payload.subject}, {payload.type}),
           payload)
     EXCEPT !.pc = "done", !.outcome = "scored",
            !.result = {heuristicAnalyze(cleanPayload(payload))}]

Score(payload) ==
  /\ reqs' = Append(reqs, Scored(payload))
  /\ UNCHANGED <<env, now, keyStore, buckets, analysisLogs, users, handedOut, calls>>

(***************************************************************************)
(* Key registry and registration                                           *)
(***************************************************************************)
\* issueApiKey: crypto.randomBytes(24).toString('hex') is any key of the pool
issueApiKey(apiKey, institute, email) ==
  /\ keyStore' = [k \in DOMAIN keyStore \cup {apiKey} |->
                    IF k = apiKey
                      THEN [apiKey |-> apiKey, institute |-> institute,
                            email |-> email, createdAt |-> now]
                      ELSE keyStore[k]]
  /\ UNCHANGED <<env, now, buckets, analysisLogs, users, handedOut, calls, reqs>>

\* POST /auth/register: registerInstitute builds a record and stores nothing
registerInstitute(apiKey) ==
  /\ handedOut' = handedOut \cup {apiKey}
  /\ UNCHANGED <<env, now, keyStore, buckets, analysisLogs, users, calls, reqs>>

\* POST /auth/register-email: registerWithEmail saves a User
registerWithEmail(email, apiKey) ==
  /\ ~\E u \in users : u.email = email \/ u.apiKey = apiKey
  /\ users' = users \cup {[email |-> email, apiKey |-> apiKey,
                           authProvider |-> "email", googleId |-> {}]}
  /\ handedOut' = handedOut \cup {apiKey}
  /\ UNCHANGED <<env, now, keyStore, buckets, analysisLogs, calls, reqs>>

\* POST /auth/google: linkGoogleToEmail links or creates a User
linkGoogleToEmail(email, googleId, apiKey) ==
  /\ IF \E u \in users : u.email = email
       THEN LET u == CHOOSE v \in users : v.email = email
                linked == [u EXCEPT !.googleId = {googleId},
                                    !.authProvider =
                                       IF @ = "email" THEN "both" ELSE @]
            IN /\ ~\E v \in users \ {u} : v.googleId = {googleId}
               /\ users' = (users \ {u}) \cup {linked}
               /\ handedOut' = handedOut \cup {u.apiKey}
       ELSE /\ ~\E v \in users : v.googleId = {googleId} \/ v.apiKey = apiKey
            /\ users' = users \cup {[email |-> email, apiKey |-> apiKey,
                                     authProvider |-> "google",
                                     googleId |-> {googleId}]}
            /\ handedOut' = handedOut \cup {apiKey}
  /\ UNCHANGED <<env, now, keyStore, buckets, analysisLogs, calls, reqs>>

(***************************************************************************)
(* Configurations and inputs                                               *)
(***************************************************************************)
\* RATE_LIMIT_PER_MIN of the modelled deployment
RateLimitPerMin == 2
\* how many POST /analyze-question requests a behaviour of Spec holds
MaxRequests == 2
\* how many a behaviour of SpecRate holds
MaxRateRequests == 3
\* the clock of SpecRate runs up to MaxSkew ms past the end of the first window
MaxSkew == 1

\* the last millisecond of the window that starts at 0, and the first ones after it
RateTimes == {0, WindowMs} \cup {WindowMs + e : e \in 1..MaxSkew}
GatewayTimes == {0, WindowMs + 1}

\* credentials: GOOGLE_APPLICATION_CREDENTIALS; vertexEndpoint: GCP_PROJECT_ID and
\* VERTEX_ENDPOINT_ID; pythonEndpoint: PYTHON_INFERENCE_URL
Envs ==
  [credentials : BOOLEAN, vertexEndpoint : BOOLEAN, pythonEndpoint : BOOLEAN,
   useInMemoryStore : BOOLEAN, rateLimitPerMinute : {RateLimitPerMin}]
\* deployments of Spec: no external service configured (the default) or all
GatewayEnvs ==
  {e \in Envs : e.vertexEndpoint = e.credentials /\ e.pythonEndpoint = e.credentials}
\* deployments of SpecRate: at most the inference service, no log store
RateEnvs ==
  {e \in Envs : ~e.credentials /\ ~e.vertexEndpoint /\ ~e.useInMemoryStore}

GatewayKey == "4fa1c09be27d"
HexKeys == {GatewayKey, "07d5e3aa61f2"}
LegacyKeys == {"sk_legacy_mh1x9k2f"}
EmailKeys == {"sk_email_mh1x9q7c"}
GoogleKeys == {"sk_google_mh1xa03d"}
Institutes == {"Uni"}
Emails == {"dean@uni.edu"}
GoogleIds == {"g-1001"}

Present(vs) == {{v} : v \in vs}
\* x-api-key of a request: absent, or a key (in the registry only once issued)
GatewayHeaders == {{}, {GatewayKey}}
RateHeaders == Present(HexKeys)

Signals(n, p, ks) ==
  [sentenceCount |-> n, passiveVoice |-> p, complexityPer50 |-> 10, keywords |-> ks]
GatewaySignals == {Signals(4, TRUE, <<"recursion">>)}
DirectSignals ==
  {Signals(n, p, ks) : n \in {1, 3, 4}, p \in BOOLEAN,
                       ks \in {<<>>, <<"recursion", "call stack">>}}

Reply(d, q, fs, ks, undef) ==
  [question |-> "What is recursion?", subject |-> "CS", questionType |-> "Theory",
   difficulty |-> d, qualityScore |-> q, flags |-> fs,
   explanation |-> "Predicted by the difficulty classifier.",
   suggestedFix |-> "Add the expected depth of the answer.",
   keywords |-> ks, undef |-> undef]
GatewayReplies ==
  {{}, {Reply("Medium", 70, <<"Missing context">>, <<"recursion">>, {})},
   {Reply("Medium", 70, <<>>, <<>>, {"flags"})}}
DirectReplies ==
  {{}} \cup
  Present({Reply("Easy", 70, <<"Missing context">>, <<"recursion", "recursion">>, {}),
           Reply("Hard", 42, <<>>, <<>>, {"keywords"}),
           Reply("Medium", 70, <<>>, <<"tree">>, {"flags"}),
           Reply("Expert", 70, <<>>, <<>>, {})})

Prediction(d, q, e) == [difficulty |-> d, qualityScore |-> q, explanation |-> e]
GatewayPredictions == {EmptyPrediction, Prediction({"Hard"}, {55}, {})}
DirectPredictions ==
  {Prediction(d, q, e) : d \in {{}, {""}, {"Easy"}, {"Hard"}},
                         q \in {{}, {0}, {55}, {150}},
                         e \in {{}, {""}, {"Vertex: two concepts in one ask."}}}

\* how many words the longest run of filler words of a scored question has
MaxWords == 45
\* how many calls of the scorer a behaviour of SpecScore holds
MaxScored == 3

\* the questions of SpecScore: an opening, a run of a filler word, a close; raw
\* as a caller may send them, with doubled spaces and tabs
Openings == {"", "What ", "Explain  ", "build\t"}
Closings == {"", "?", " interest", ", and stuff?"}
ScoreRuns == {n \in 1..MaxWords : n <= 6 \/ n % 5 \in {0, 4} \/ n = MaxWords}

RECURSIVE repeatWord(_, _)
repeatWord(w, n) == IF n <= 1 THEN w ELSE w \o " " \o repeatWord(w, n - 1)

ScorePayloads ==
  {Payload(o \o repeatWord("a", n) \o c, "CS", "Theory") :
     o \in Openings, n \in ScoreRuns, c \in Closings}
\* the payload of the calls made between two calls with the same payload
OtherPayloads == {Payload("just explain the thing", "CS", "MCQ")}

(***************************************************************************)
(* Specifications                                                          *)
(***************************************************************************)
InitWith(envs) ==
  /\ env \in envs
  /\ now = 0
  /\ keyStore = <<>>
  /\ buckets = <<>>
  /\ analysisLogs = <<>>
  /\ users = {}
  /\ handedOut = {}
  /\ calls = [nl |-> 0, python |-> 0, vertex |-> 0]
  /\ reqs = <<>>

Tick(times) ==
  /\ \E t \in times : t > now /\ now' = t
  /\ UNCHANGED <<env, keyStore, buckets, analysisLogs, users, handedOut, calls, reqs>>

IssueKey(keys) == \E k \in keys, i \in Institutes, e \in Emails : issueApiKey(k, i, e)

Register ==
  \/ \E k \in LegacyKeys : registerInstitute(k)
  \/ \E e \in Emails, k \in EmailKeys : registerWithEmail(e, k)
  \/ \E e \in Emails, g \in GoogleIds, k \in GoogleKeys : linkGoogleToEmail(e, g, k)

Request(max, headers, bodies) ==
  /\ Len(reqs) < max
  /\ \E key \in headers, body \in bodies : HttpAnalyze(key, body)

Adapters(signals, replies, predictions) ==
  \E r \in 1..Len(reqs) :
    \/ \E up \in {{}} \cup Present(signals) : NlReturn(r, up)
    \/ \E reply \in replies, failed \in BOOLEAN : PyReturn(r, reply, failed)
    \/ \E p \in predictions : VertexReturn(r, p)

\* the gateway: requests against the key registry, every adapter outcome
Init == InitWith(GatewayEnvs)

Next ==
  \/ IssueKey({GatewayKey})
  \/ Tick(GatewayTimes)
  \/ Request(MaxRequests, GatewayHeaders, GatewayBodies)
  \/ Adapters(GatewaySignals, GatewayReplies, GatewayPredictions)

Spec == Init /\ [][Next]_vars

\* the gateway with adapter calls that return: a pending promise of an adapter
\* is settled by the event loop at some point (the client libraries and fetch
\* resolve or reject every call)
\* its deployments admit one request per key and minute, so that a key's second
\* request in a window is answered 429
LiveEnvs == {[e EXCEPT !.rateLimitPerMinute = 1] : e \in GatewayEnvs}
LiveBodies == {ValidBody, Body({" Hi? "}, {"CS"}, {"MCQ"})}

InitLive == InitWith(LiveEnvs)

NextLive ==
  \/ IssueKey({GatewayKey})
  \/ Tick(GatewayTimes)
  \/ Request(MaxRequests, GatewayHeaders, LiveBodies)
  \/ Adapters(GatewaySignals, GatewayReplies, GatewayPredictions)

SpecLive ==
  /\ InitLive /\ [][NextLive]_vars
  /\ WF_vars(Adapters(GatewaySignals, GatewayReplies, GatewayPredictions))

\* one call of analyzeQuestion on its own, over the wide adapter outcomes
InitOrch == InitWith(Envs)

DirectCall ==
  /\ reqs = <<>>
  /\ \E payload \in DirectPayloads : CallAnalyze(payload, GatewayKey)

NextOrch ==
  \/ DirectCall
  \/ Adapters(DirectSignals, DirectReplies, DirectPredictions)

\* one direct call in any deployment, every upstream call of which fails: the
\* NL client throws, the inference fetch rejects or answers non-2xx (whatever
\* body it carries), the prediction client throws
UpstreamFails ==
  \E r \in 1..Len(reqs) :
    \/ NlReturn(r, {})
    \/ \E reply \in DirectReplies : PyReturn(r, reply, TRUE)
    \/ VertexReturn(r, EmptyPrediction)

NextDegrade ==
  \/ DirectCall
  \/ UpstreamFails

SpecDegrade == InitOrch /\ [][NextDegrade]_vars

SpecOrch == InitOrch /\ [][NextOrch]_vars

\* rate limiting: more requests, two keys, the clock across window ends
InitRate == InitWith(RateEnvs)

NextRate ==
  \/ IssueKey(HexKeys)
  \/ Tick(RateTimes)
  \/ Request(MaxRateRequests, RateHeaders, RateBodies)
  \/ Adapters({}, {{}}, {EmptyPrediction})

SpecRate == InitRate /\ [][NextRate]_vars

\* registration: the keys the /auth endpoints hand out, used on a request
InitAuth == InitWith(GatewayEnvs)

NextAuth ==
  \/ IssueKey({GatewayKey})
  \/ Register
  \/ Request(MaxRequests, Present({GatewayKey} \cup LegacyKeys \cup EmailKeys \cup GoogleKeys),
             {ValidBody})
  \/ Adapters(GatewaySignals, GatewayReplies, GatewayPredictions)

SpecAuth == InitAuth /\ [][NextAuth]_vars

\* the heuristic scorer on its own: a first call over the questions of
\* ScorePayloads, then calls that repeat it or score something else
InitScore == InitWith({e \in Envs : ~e.credentials /\ ~e.vertexEndpoint
                                     /\ ~e.pythonEndpoint /\ ~e.useInMemoryStore})

ScoreFirst == reqs = <<>> /\ \E payload \in ScorePayloads : Score(payload)

ScoreAgain ==
  /\ reqs # <<>> /\ Len(reqs) < MaxScored
  /\ \E payload \in OtherPayloads \cup {Payload(Val(reqs[1].body.question), "CS", "Theory")} :
       Score(payload)

NextScore == ScoreFirst \/ ScoreAgain

SpecScore == InitScore /\ [][NextScore]_vars

\* validation: one request with a registered or an unregistered key, nothing
\* configured, over the bodies of ValidationBodies
InitValid == InitWith({e \in Envs : ~e.credentials /\ ~e.vertexEndpoint /\ ~e.pythonEndpoint})

NextValid ==
  \/ IssueKey({GatewayKey})
  \/ Request(1, Present({GatewayKey}), ValidationBodies)

SpecValid == InitValid /\ [][NextValid]_vars

(***************************************************************************)
(* Properties                                                              *)
(***************************************************************************)
Requests == 1..Len(reqs)
Returned(q) == q.outcome = "returned"
\* the request a step has added, if it has added one
Arrived == Len(reqs') = Len(reqs) + 1
Newest == reqs'[Len(reqs')]
\* the request was let through by apiKeyAuth and rateLimit
Admitted(q) == q.status \notin {401, 429}

\* C1: the base result is the inference result when there is one and the
\* heuristic scorer's output for the normalized request when the inference
\* adapter returned null; the returned result is that base with the NL merge and
\* the override applied, and everything these two rules leave alone is the base's.
C1_BaseIsInferenceElseHeuristic ==
  \A r \in Requests :
    LET q == reqs[r]
        base == IF q.pythonResult = {} THEN heuristicOf(Val(q.cleaned))
                ELSE Val(q.pythonResult)
    IN Returned(q) =>
         /\ Val(q.result) = applyOverride(nlMerge(base, Val(q.nlSignals)),
                                          Val(q.vertexResult))
         /\ Val(q.result).suggestedFix = base.suggestedFix
         /\ Val(q.result).question = base.question
         /\ SubSeq(Val(q.result).flags, 1, Len(base.flags)) = base.flags

\* a configured inference service answered null, and the returned result is the
\* heuristic's with an NL flag added and the difficulty overridden
C1_Witness ==
  \E r \in Requests :
    /\ Returned(reqs[r]) /\ pythonConfigured /\ reqs[r].pythonResult = {}
    /\ Val(reqs[r].result).question = "What is recursion?"
    /\ Val(reqs[r].result).flags = <<FlagContext, FlagPassive>>
    /\ Val(reqs[r].result).difficulty = "Hard"
    /\ Val(reqs[r].result).suggestedFix = FixTighten

\* C2: an override prediction with a difficulty decides the returned difficulty,
\* whatever the base was, and the returned difficulty, qualityScore and
\* explanation are each the override's value or the merged base's: nothing after
\* the override step changes them.
C2_OverrideHasFinalSay ==
  \A r \in Requests :
    LET q == reqs[r] IN
    Returned(q) =>
      /\ Val(q.vertexResult).difficulty \in Present({"Easy", "Medium", "Hard"})
           => Val(q.result).difficulty = Val(Val(q.vertexResult).difficulty)
      /\ Val(q.result).difficulty \in
           {Val(q.merged).difficulty} \cup Val(q.vertexResult).difficulty
      /\ Val(q.result).qualityScore \in
           {Val(q.merged).qualityScore} \cup Val(q.vertexResult).qualityScore
      /\ Val(q.result).explanation \in
           {Val(q.merged).explanation} \cup Val(q.vertexResult).explanation

\* base Easy, override Hard, returned Hard
C2_Witness ==
  \E r \in Requests :
    /\ Returned(reqs[r])
    /\ Val(reqs[r].merged).difficulty = "Easy"
    /\ Val(reqs[r].vertexResult).difficulty = {"Hard"}
    /\ Val(reqs[r].result).difficulty = "Hard"

\* C3 as claimed: every override field that is not null, a qualityScore of 0 and
\* an empty explanation included, is the returned result's field, and a null
\* field keeps the base value.
C3_NonNullFieldOverwrites ==
  \A r \in Requests :
    LET q == reqs[r] IN
    Returned(q) =>
      /\ \A d \in Val(q.vertexResult).difficulty : Val(q.result).difficulty = d
      /\ \A n \in Val(q.vertexResult).qualityScore : Val(q.result).qualityScore = n
      /\ \A e \in Val(q.vertexResult).explanation : Val(q.result).explanation = e
      /\ Val(q.vertexResult).difficulty = {}
           => Val(q.result).difficulty = Val(q.merged).difficulty
      /\ Val(q.vertexResult).qualityScore = {}
           => Val(q.result).qualityScore = Val(q.merged).qualityScore
      /\ Val(q.vertexResult).explanation = {}
           => Val(q.result).explanation = Val(q.merged).explanation

\* C4: the NL merge leaves difficulty, qualityScore, explanation and suggestedFix
\* alone, keeps every base flag (in place) and every base keyword, and adds
\* exactly one flag when the signals report passive voice and at most three
\* sentences.
C4_NlMergeAdditive ==
  \A r \in Requests :
    LET q == reqs[r]
        base == IF q.pythonResult = {} THEN heuristicOf(Val(q.cleaned))
                ELSE Val(q.pythonResult)
        nl == Val(q.nlSignals)
    IN q.merged # {} =>
         LET m == Val(q.merged) IN
         /\ m.difficulty = base.difficulty
         /\ m.qualityScore = base.qualityScore
         /\ m.explanation = base.explanation
         /\ m.suggestedFix = base.suggestedFix
         /\ Len(m.flags) >= Len(base.flags)
         /\ SubSeq(m.flags, 1, Len(base.flags)) = base.flags
         /\ "keywords" \notin base.undef => Range(base.keywords) \subseteq Range(m.keywords)
         /\ nl.passiveVoice /\ nl.sentenceCount <= 3
              => Len(m.flags) = Len(base.flags) + 1

\* base qualityScore 70, passive voice in exactly three sentences: still 70, one
\* more flag
C4_Witness ==
  \E r \in Requests :
    /\ reqs[r].merged # {} /\ reqs[r].pythonResult # {}
    /\ Val(reqs[r].pythonResult).qualityScore = 70
    /\ Val(reqs[r].nlSignals).passiveVoice
    /\ Val(reqs[r].nlSignals).sentenceCount = 3
    /\ Val(reqs[r].merged).qualityScore = 70
    /\ Len(Val(reqs[r].merged).flags) = Len(Val(reqs[r].pythonResult).flags) + 1

\* C5 as claimed: a request let through by authentication, rate limiting and
\* validation is answered 200, whatever the adapters did.
C5_AdaptersNeverSurface ==
  \A r \in Requests :
    LET q == reqs[r] IN
    q.via = "http" /\ q.pc = "done" /\ q.cleaned # {} => q.status = 200

\* C6 as claimed: a request that carries an apiKey a registration has handed out
\* is not answered 401.
C6_RegisteredKeyAuthenticates ==
  [][Arrived /\ Newest.key \subseteq handedOut /\ Newest.key # {}
       => Newest.status # 401]_vars

\* C7: a request whose x-api-key is missing or not in the registry is answered
\* 401, and the step invokes no adapter and leaves the analysis log (and the
\* rate buckets) unchanged.
C7_UnknownKeyNoSideEffects ==
  [][Arrived /\ Newest.via = "http"
        /\ (Falsy(Newest.key) \/ Val(Newest.key) \notin DOMAIN keyStore)
       => /\ Newest.status = 401
          /\ Newest.pc = "done" /\ Newest.cleaned = {}
          /\ calls' = calls
          /\ analysisLogs' = analysisLogs
          /\ buckets' = buckets]_vars

\* a request without a key and one with a key never issued, both answered 401
\* with no adapter called
C7_Witness ==
  \E r1, r2 \in Requests :
    /\ reqs[r1].key = {} /\ reqs[r1].status = 401 /\ reqs[r1].error = ErrMissingKey
    /\ reqs[r2].key = {GatewayKey} /\ reqs[r2].status = 401
    /\ reqs[r2].error = ErrInvalidKey
    /\ calls = [nl |-> 0, python |-> 0, vertex |-> 0]

\* C8 as claimed: a body that fails validation is answered 400 with a message.
C8_ValidationAnswers400 ==
  \A r \in Requests :
    LET q == reqs[r] IN
    q.via = "http" /\ Admitted(q) /\ validateError(q.body) # ""
      => q.status = 400 /\ q.error # ""

\* the admitted requests of key k that fall into k's current window
AdmittedInWindow(k) ==
  {r \in Requests : /\ reqs[r].key = {k} /\ Admitted(reqs[r])
                    /\ reqs[r].start >= buckets[k].windowStart}

\* C9: once N requests of a key have been admitted in its window, every further
\* request of that key that arrives inside the window (at most WindowMs after
\* its start) is answered 429 and changes no bucket, also while earlier
\* requests of the key are still in flight.
C9_OverLimitRejected ==
  [][\A k \in HexKeys :
        /\ Arrived /\ Newest.key = {k}
        /\ k \in DOMAIN keyStore /\ k \in DOMAIN buckets
        /\ now - buckets[k].windowStart <= WindowMs
        /\ Cardinality(AdmittedInWindow(k)) >= env.rateLimitPerMinute
       => Newest.status = 429 /\ buckets' = buckets]_vars

\* a request answered 429 at the last millisecond of the window while an
\* admitted request of the same key is still in flight
C9_Witness ==
  \E r, p \in Requests :
    /\ p < r /\ reqs[p].key = reqs[r].key
    /\ reqs[r].status = 429 /\ reqs[r].start = WindowMs
    /\ reqs[p].pc # "done"
    /\ Cardinality({a \in Requests : a < r /\ reqs[a].key = reqs[r].key
                                      /\ Admitted(reqs[a])}) = env.rateLimitPerMinute

Invalid(body) ==
  \/ body.question \in {{}, {""}} \/ body.subject \in {{}, {""}}
  \/ body.type \in {{}, {""}}
  \/ Len(trim(Val(body.question))) < 5

\* C11: a request that apiKeyAuth answers 401, or that passes the middleware and
\* whose body validateAnalyze throws on, is answered in the step it arrives in:
\* the pipeline is not started, no NL, inference or override adapter is invoked
\* and no AnalysisLog entry is appended.
C11_RejectedNeverStartsPipeline ==
  [][Arrived /\ Newest.via = "http"
        /\ (Newest.status = 401 \/ (Admitted(Newest) /\ Invalid(Newest.body)))
       => /\ Newest.pc = "done" /\ Newest.status \in {401, 500}
          /\ Newest.cleaned = {} /\ Newest.result = {}
          /\ calls' = calls
          /\ analysisLogs' = analysisLogs]_vars

\* a too-short question was answered with validateAnalyze's message after an
\* earlier request had run the pipeline and been logged, and the adapter calls
\* and the log are those of the earlier request alone
C11_Witness ==
  \E r, p \in Requests :
    /\ p < r /\ Returned(reqs[p])
    /\ reqs[r].error = ErrTooShort /\ reqs[r].pc = "done"
    /\ calls = [nl |-> 1, python |-> 1, vertex |-> 1]
    /\ Len(analysisLogs) = 1
\* C12 as claimed: every result analyzeQuestion returns has a difficulty of
\* Easy, Medium or Hard and a qualityScore from 0 to 100, whatever the inference
\* and the override adapter returned.
C12_ResultInRange ==
  \A r \in Requests :
    Returned(reqs[r]) =>
      /\ Val(reqs[r].result).difficulty \in {"Easy", "Medium", "Hard"}
      /\ Val(reqs[r].result).qualityScore \in 0..100
\* the calls of the scorer, and what each was given and gave
Scores == {r \in Requests : reqs[r].outcome = "scored"}
Given(r) == Val(reqs[r].cleaned).question
Gave(r) == Val(reqs[r].result)
\* the number of words of a normalized text
WordCount(s) ==
  Cardinality({i \in 1..Len(s) : Char(s, i) # " " /\ (i = 1 \/ Char(s, i - 1) = " ")})

\* C13: the qualityScore the heuristic scorer returns is from 30 to 100.
C13_HeuristicQualityInRange ==
  \A r \in Scores : Gave(r).qualityScore \in 30..100

\* a question whose bonuses add up to 105 is scored 100
C13_Witness ==
  \E r \in Scores :
    /\ Gave(r).qualityScore = 100
    /\ includes(Given(r), "?") /\ includes(Given(r), ",")
    /\ StartsAt(Given(r), 1, "What ")
    /\ WordCount(Given(r)) \in 16..30

\* C15: a question of fewer than 6 words gets the needs-more-context flag.
C15_ContextFlagBelowSix ==
  \A r \in Scores : WordCount(Given(r)) < 6 => FlagContext \in Range(Gave(r).flags)

\* a question of exactly 5 words with the flag
C15_Witness ==
  \E r \in Scores : WordCount(Given(r)) = 5 /\ FlagContext \in Range(Gave(r).flags)

\* C16: a question of more than 35 words gets the broad-scope flag, and its
\* suggestedFix is the split-the-question text.
C16_BroadFlagAboveThirtyFive ==
  \A r \in Scores :
    WordCount(Given(r)) > 35
      => FlagBroad \in Range(Gave(r).flags) /\ Gave(r).suggestedFix = FixSplit

\* a question of exactly 36 words with the flag and the split text
C16_Witness ==
  \E r \in Scores :
    /\ WordCount(Given(r)) = 36
    /\ FlagBroad \in Range(Gave(r).flags) /\ Gave(r).suggestedFix = FixSplit

Scenario2(r) ==
  /\ WordCount(Given(r)) = 45
  /\ ~includes(Given(r), "?")
  /\ ~testAny(Given(r), ComplexWords) /\ ~testAny(Given(r), TechnicalTerms)

Scenario2Expected(r) ==
  /\ {FlagBroad, FlagAmbiguous, FlagDepth} \subseteq Range(Gave(r).flags)
  /\ difficultyScore(Given(r)) = 1
  /\ Gave(r).difficulty = "Medium"

C14_HandedQuestionLongEnough ==
  \A r \in Requests :
    reqs[r].via = "http" /\ reqs[r].cleaned # {}
      => /\ Val(reqs[r].cleaned).question # ""
         /\ Len(Val(reqs[r].cleaned).question) >= 5

\* nothing is configured
AllUnconfigured == ~env.credentials /\ ~env.vertexEndpoint /\ ~env.pythonEndpoint

\* C18: with no adapter configured, {question: "What is recursion?", subject:
\* "CS", type: "Theory"} is returned with difficulty Easy (3 words, a difficulty
\* score of -1), a qualityScore that carries the penalty of 20 for fewer than
\* 5 words (70 + 15 + 5 - 20), and the needs-more-context flag.
C18_Scenario1 ==
  \A r \in Requests :
    LET q == reqs[r] IN
    /\ Returned(q) /\ AllUnconfigured
    /\ Val(q.cleaned) = Payload("What is recursion?", "CS", "Theory")
    => /\ Val(q.result).difficulty = "Easy"
       /\ Val(q.result).qualityScore = 70 + 15 + 5 - 20
       /\ FlagContext \in Range(Val(q.result).flags)

\* the scenario's call has returned, with the heuristic's flag and keyword only
C18_Witness ==
  \E r \in Requests :
    /\ Returned(reqs[r]) /\ AllUnconfigured
    /\ calls = [nl |-> 1, python |-> 1, vertex |-> 1]
    /\ Val(reqs[r].cleaned) = Payload("What is recursion?", "CS", "Theory")
    /\ Val(reqs[r].result).flags = <<FlagContext>>
    /\ Val(reqs[r].result).keywords = <<"recursion">>

C22_EachAdapterExactlyOnce ==
  \A r \in Requests :
    /\ calls.nl <= 1 /\ calls.python <= 1 /\ calls.vertex <= 1
    /\ reqs[r].pc = "done" => calls = [nl |-> 1, python |-> 1, vertex |-> 1]

\* C23 as claimed: every call of analyzeQuestion that has returned a result has
\* appended exactly one AnalysisLog entry, with the request's apiKey, subject
\* and type and the returned result's flags, and no step changes or removes an
\* entry the log already has.
C23_OneLogEntryPerResult ==
  /\ [](/\ Len(analysisLogs) = Cardinality({r \in Requests : Returned(reqs[r])})
        /\ \A r \in Requests :
             Returned(reqs[r]) =>
               \E i \in 1..Len(analysisLogs) :
                 /\ analysisLogs[i].apiKey = Val(reqs[r].key)
                 /\ analysisLogs[i].subject = Val(reqs[r].cleaned).subject
                 /\ analysisLogs[i].type = Val(reqs[r].cleaned).type
                 /\ analysisLogs[i].flags = Val(reqs[r].result).flags)
  /\ [][/\ Len(analysisLogs') >= Len(analysisLogs)
        /\ SubSeq(analysisLogs', 1, Len(analysisLogs)) = analysisLogs]_vars

\* C24 as claimed: the heuristic scorer raises the ambiguous-phrasing flag
\* exactly when the question has no "?" and does not begin with one of write,
\* explain, describe, implement, design, create, which is exactly when the
\* scorer does not award its +15 bonus.
C24_AmbiguousIffNoBonus ==
  \A r \in Scores :
    FlagAmbiguous \in Range(Gave(r).flags)
      <=> ~includes(Given(r), "?") /\ ~matchPrefix(Given(r), QualityImperatives)

\* the base result of a request and the keywords it brings to the NL merge
BaseOf(q) == IF q.pythonResult = {} THEN heuristicOf(Val(q.cleaned)) ELSE Val(q.pythonResult)
BaseKeywords(q) == IF "keywords" \in BaseOf(q).undef THEN <<>> ELSE BaseOf(q).keywords
\* the first position of x in xs
FirstAt(xs, x) == CHOOSE i \in 1..Len(xs) : xs[i] = x /\ \A j \in 1..(i - 1) : xs[j] # x

\* C25: after the NL merge the flags are the base's flags, then the passive
\* flag exactly when the NL signals say passive voice, then the clauses flag
\* exactly when sentenceCount is above 3; the keywords are the base's keywords
\* and the NL keywords without duplicates, each in the place of its first
\* occurrence in the base's keywords followed by the NL keywords.
C25_NlMergeContent ==
  \A r \in Requests :
    LET q == reqs[r] IN
    q.merged # {} =>
      LET m == Val(q.merged)
          nl == Val(q.nlSignals)
          n == Len(BaseOf(q).flags)
          all == BaseKeywords(q) \o nl.keywords
      IN /\ SubSeq(m.flags, 1, n) = BaseOf(q).flags
         /\ Len(m.flags) = n + (IF nl.passiveVoice THEN 1 ELSE 0)
                             + (IF nl.sentenceCount > 3 THEN 1 ELSE 0)
         /\ nl.passiveVoice => m.flags[n + 1] = FlagPassive
         /\ nl.sentenceCount > 3 => m.flags[Len(m.flags)] = FlagClauses
         /\ Range(m.keywords) = Range(all)
         /\ Cardinality(Range(m.keywords)) = Len(m.keywords)
         /\ \A i, j \in 1..Len(m.keywords) :
              i < j => FirstAt(all, m.keywords[i]) < FirstAt(all, m.keywords[j])

\* passive voice and four sentences, on a base whose repeated keyword the NL
\* signals name again: both flags at the end, the keyword once and first
C25_Witness ==
  \E r \in Requests :
    LET q == reqs[r] IN
    /\ q.merged # {} /\ q.pythonResult # {}
    /\ Val(q.nlSignals).passiveVoice /\ Val(q.nlSignals).sentenceCount = 4
    /\ BaseKeywords(q) = <<"recursion", "recursion">>
    /\ Val(q.nlSignals).keywords = <<"recursion", "call stack">>
    /\ Val(q.merged).keywords = <<"recursion", "call stack">>
    /\ Val(q.merged).flags = BaseOf(q).flags \o <<FlagPassive, FlagClauses>>

C27_CountersPartitionedByKey ==
  /\ \A k \in DOMAIN buckets : buckets[k].count = Cardinality(AdmittedInWindow(k))
  /\ \A k \in HexKeys :
       k \notin DOMAIN buckets
         => ~\E r \in Requests : reqs[r].key = {k} /\ Admitted(reqs[r])
  /\ \A r \in Requests :
       reqs[r].status = 429
         => Cardinality({a \in 1..(r - 1) : /\ reqs[a].key = reqs[r].key
                                            /\ Admitted(reqs[a])
                                            /\ reqs[a].start >= reqs[r].start - WindowMs})
              >= env.rateLimitPerMinute

\* one key is at its limit, and a request of the other key that arrived after
\* that, in the same window, was admitted
C27_Witness ==
  \E a, b \in HexKeys, r \in Requests :
    /\ a # b /\ a \in DOMAIN buckets /\ b \in DOMAIN buckets
    /\ buckets[a].count = env.rateLimitPerMinute
    /\ reqs[r].key = {b} /\ Admitted(reqs[r])
    /\ reqs[r].start - buckets[a].windowStart <= WindowMs
    /\ \A p \in Requests : reqs[p].key = {a} => p < r /\ Admitted(reqs[p])

\* C28: in every reachable state every bucket's count is from 0 to
\* rateLimitPerMinute, and the step of a request that is answered 429 leaves
\* the buckets, count and windowStart of its own key's included, as they were.
C28_BucketBounded ==
  /\ [](\A k \in DOMAIN buckets :
          buckets[k].count >= 0 /\ buckets[k].count <= env.rateLimitPerMinute)
  /\ [][Arrived /\ Newest.status = 429 => buckets' = buckets]_vars

\* a key's bucket is full, one of its requests was answered 429 later in the
\* window, and the window still starts where it started
C28_Witness ==
  \E k \in HexKeys, r \in Requests :
    /\ k \in DOMAIN buckets
    /\ buckets[k] = [count |-> env.rateLimitPerMinute, windowStart |-> 0]
    /\ reqs[r].key = {k} /\ reqs[r].status = 429 /\ reqs[r].start = WindowMs

\* the requests of key k in its window that got past apiKeyAuth and rateLimit,
\* and those of them that validateAnalyze then threw on
PassedMiddleware(k) ==
  {r \in Requests : /\ reqs[r].key = {k} /\ reqs[r].status \notin {401, 429}
                    /\ reqs[r].start >= buckets[k].windowStart}
FailedValidation(k) ==
  {r \in PassedMiddleware(k) : Invalid(reqs[r].body) /\ reqs[r].outcome = "threw"}

\* C29: the gateway authenticates, then rate-limits, then validates. A request
\* answered 401 creates and changes no bucket: only keys of the registry have a
\* bucket, and a bucket counts the requests of its key that were not answered
\* 401 or 429, those whose body then failed validation included: such a request
\* has used one unit of its key's quota.
C29_AuthThenRateThenValidation ==
  /\ DOMAIN buckets \subseteq DOMAIN keyStore
  /\ \A k \in DOMAIN buckets : buckets[k].count = Cardinality(PassedMiddleware(k))
  /\ \A r \in Requests :
       reqs[r].status \notin {401, 429} => Val(reqs[r].key) \in DOMAIN buckets

\* a request without a registered key was answered 401, then the key was issued
\* and its first request, whose body fails validation, is the bucket's one unit
C29_Witness ==
  \E r, p \in Requests :
    /\ buckets = (GatewayKey :> [count |-> 1, windowStart |-> reqs[r].start])
    /\ FailedValidation(GatewayKey) = {r}
    /\ p < r /\ reqs[p].status = 401

\* the statuses a response is sent with: res.json (200), apiKeyAuth (401),
\* rateLimit (429), errorHandler (500)
ResponseStatus == {200, 401, 429, 500}

\* C30: every POST /analyze-question request receives exactly one response. A
\* request is either unanswered and in the pipeline or answered with one of
\* 200, 401, 429 and the error handler's 500; once answered it never changes
\* again (no second response); and, adapter calls returning, every request is
\* eventually answered: again and again all requests received so far are
\* answered, so none stays unanswered from its arrival on.
C30_ExactlyOneResponse ==
  /\ [](\A r \in Requests :
          IF reqs[r].pc = "done" THEN reqs[r].status \in ResponseStatus
          ELSE reqs[r].status = 0)
  /\ [][/\ Len(reqs') >= Len(reqs)
        /\ \A r \in Requests : reqs[r].status # 0 => reqs'[r] = reqs[r]]_vars
  /\ []<>(\A r \in Requests : reqs[r].status \in ResponseStatus)

\* a request was answered 429 while its key's first request was in the
\* pipeline, and that one has been answered 200 since
C30_Witness ==
  \E r, p \in Requests :
    /\ p < r /\ reqs[r].status = 429 /\ reqs[r].start = reqs[p].start
    /\ reqs[p].status = 200 /\ reqs[p].vertexResult # {} /\ calls.vertex = 1
    /\ vertexConfigured
=============================================================================
